---- MODULE Spec2Model ----
(***************************************************************************)
(* A model of the vocabulary trainer of src/main.py: the CSV store         *)
(* (read_vocab, save_vocabs), the two quiz modes (ask_prompt, ask_choice), *)
(* the two kinds of round (run_prompt_session, run_choice_session) and the *)
(* session loop of main.                                                   *)
(*                                                                         *)
(* A text field that the program parses (index, status) is a sequence of   *)
(* one-character strings; a field it only compares and measures (word,     *)
(* meaning) is a string.  A vocabulary entry is the dict of its four       *)
(* fields; nothing in the program depends on the identity of a dict, so    *)
(* a dict is modelled by its value.  The list in_this_round is only        *)
(* printed by summary and is not part of the model.                        *)
(***************************************************************************)
EXTENDS Integers, Sequences, FiniteSets, TLC

(***************************************************************************)
(* Program constants.                                                      *)
(***************************************************************************)
NOT_LEARNED == 0
PASS_CHOICE == 1
LEARNED == 2
Status == {NOT_LEARNED, PASS_CHOICE, LEARNED}

\* for i in range(5)
RoundSize == 5
\* len(vocabs[Status.PASS_CHOICE]) >= 10
Threshold == 10
\* while len(pool) < 5
PoolTarget == 5
\* while len(choices) < 4
NumChoices == 4

(***************************************************************************)
(* Bounds of the model: the number of rows of the large file.              *)
(***************************************************************************)
NumPass == 10
NumNew == 2

(***************************************************************************)
(* Text: int(s) and str(n).                                                *)
(***************************************************************************)
Digits == <<"0", "1", "2", "3", "4", "5", "6", "7", "8", "9">>

IsDigit(c) == \E d \in 1..10 : Digits[d] = c

DigitVal(c) == (CHOOSE d \in 1..10 : Digits[d] = c) - 1

RECURSIVE Strip(_)
\* int() ignores surrounding whitespace
Strip(s) ==
    IF s = <<>> THEN s
    ELSE IF Head(s) = " " THEN Strip(Tail(s))
    ELSE IF s[Len(s)] = " " THEN Strip(SubSeq(s, 1, Len(s) - 1))
    ELSE s

RECURSIVE DigitsVal(_, _)
DigitsVal(s, acc) ==
    IF s = <<>> THEN acc ELSE DigitsVal(Tail(s), 10 * acc + DigitVal(Head(s)))

\* int(s): [ok |-> FALSE] stands for ValueError
ParseInt(s) ==
    LET t == Strip(s)
        signed == t # <<>> /\ Head(t) \in {"+", "-"}
        body == IF signed THEN Tail(t) ELSE t
    IN  IF body = <<>> \/ \E k \in 1..Len(body) : ~IsDigit(body[k])
        THEN [ok |-> FALSE, val |-> 0]
        ELSE [ok |-> TRUE,
              val |-> IF signed /\ Head(t) = "-"
                      THEN 0 - DigitsVal(body, 0) ELSE DigitsVal(body, 0)]

RECURSIVE NatText(_)
NatText(n) ==
    IF n < 10 THEN <<Digits[n + 1]>>
    ELSE Append(NatText(n \div 10), Digits[(n % 10) + 1])

\* str(n), as csv.DictWriter writes an int
IntText(n) == IF n < 0 THEN <<"-">> \o NatText(0 - n) ELSE NatText(n)

(***************************************************************************)
(* Helpers on sequences.                                                   *)
(***************************************************************************)
Range(s) == {s[k] : k \in 1..Len(s)}

\* list.pop(k), k counted from 1
RemoveAt(s, k) == SubSeq(s, 1, k - 1) \o SubSeq(s, k + 1, Len(s))

SetMax(S) == CHOOSE m \in S : \A n \in S : n <= m

(***************************************************************************)
(* read_vocab.                                                             *)
(***************************************************************************)
Row(i, w, m, s) == [index |-> i, word |-> w, meaning |-> m, status |-> s]

\* ParseStatus without the test of the range of Status
ParseStatusAny(s) ==
    LET n == ParseInt(s)
    IN  [ok |-> n.ok, val |-> n.val]

\* Status(int(vocab["status"])): ok is FALSE when int or Status raises ValueError
ParseStatus(s) ==
    LET n == ParseInt(s)
    IN  [ok |-> n.ok /\ n.val \in Status, val |-> n.val]

RECURSIVE BucketRows(_, _)
\* the rows of one status, in file order, each with its status parsed
BucketRows(raw, st) ==
    IF raw = <<>> THEN <<>>
    ELSE LET r == Head(raw)
         IN  IF ParseStatus(r.status).ok /\ ParseStatus(r.status).val = st
             THEN <<[r EXCEPT !.status = st]>> \o BucketRows(Tail(raw), st)
             ELSE BucketRows(Tail(raw), st)

RECURSIVE MeaningsOfLength(_, _)
MeaningsOfLength(raw, n) ==
    IF raw = <<>> THEN <<>>
    ELSE IF Len(Head(raw).meaning) = n
         THEN <<Head(raw).meaning>> \o MeaningsOfLength(Tail(raw), n)
         ELSE MeaningsOfLength(Tail(raw), n)

Lengths(raw) == {Len(raw[k].meaning) : k \in 1..Len(raw)}

\* read_vocab(filename): ok is FALSE when a row's status raises ValueError
ReadVocab(raw) ==
    [ok |-> \A k \in 1..Len(raw) : ParseStatus(raw[k].status).ok,
     vocabs |-> [st \in Status |-> BucketRows(raw, st)],
     index |-> [n \in Lengths(raw) |-> MeaningsOfLength(raw, n)]]

(***************************************************************************)
(* save_vocabs.                                                            *)
(***************************************************************************)
\* Flatten without the Learned bucket
FlattenNoLearned(v) ==
    LET all == v[NOT_LEARNED] \o v[PASS_CHOICE]
    IN  [k \in 1..Len(all) |-> [all[k] EXCEPT !.status = IntText(all[k].status)]]

\* raw_data before the sort: the buckets in the order of Status, status as .value
Flatten(v) ==
    LET all == v[NOT_LEARNED] \o v[PASS_CHOICE] \o v[LEARNED]
    IN  [k \in 1..Len(all) |-> [all[k] EXCEPT !.status = IntText(all[k].status)]]

SortKey(r) == ParseInt(r.index).val

RECURSIVE InsertRow(_, _)
\* r placed after every row of the sorted list whose key is not larger
InsertRow(sorted, r) ==
    IF sorted = <<>> THEN <<r>>
    ELSE IF SortKey(sorted[Len(sorted)]) <= SortKey(r) THEN Append(sorted, r)
    ELSE Append(InsertRow(SubSeq(sorted, 1, Len(sorted) - 1), r), sorted[Len(sorted)])

\* SortRows without the sort
SortRowsNone(rows) == rows

RECURSIVE SortRows(_)

\* list.sort(key=lambda x: int(x["index"])), a stable sort
SortRows(rows) ==
    IF rows = <<>> THEN <<>>
    ELSE InsertRow(SortRows(SubSeq(rows, 1, Len(rows) - 1)), rows[Len(rows)])

\* the sort key raises ValueError on an index that is no integer
SaveRaises(v) ==
    LET rows == Flatten(v) IN \E k \in 1..Len(rows) : ~ParseInt(rows[k].index).ok

\* the rows save_vocabs writes
SaveRows(v) == SortRows(Flatten(v))

(***************************************************************************)
(* ask_choice: the candidate pool and the sampling of the choices.         *)
(***************************************************************************)
RECURSIVE ExtendPool(_, _, _, _)
\* while len(pool) < 5: extend by index[length_index], then step length_index
ExtendPool(pool, length_index, idx, max_length) ==
    IF Len(pool) >= PoolTarget THEN [kind |-> "ok", pool |-> pool]
    ELSE IF length_index \notin DOMAIN idx THEN [kind |-> "KeyError", pool |-> pool]
    ELSE IF max_length = 0
         THEN [kind |-> "ZeroDivisionError", pool |-> pool \o idx[length_index]]
    ELSE ExtendPool(pool \o idx[length_index],
                    ((length_index + max_length - 2) % max_length) + 1,
                    idx, max_length)

\* the pool of ask_choice for an answer, or the exception that ends it
BuildPool(answer, idx) == ExtendPool(<<>>, Len(answer), idx, SetMax(DOMAIN idx))

\* the strings a draw from the pool can add to choices = [answer]
Distractors(answer, pool) == Range(pool) \ {answer}

\* the loop of random.choices can reach len(choices) = 4
CanSample(answer, pool) == Cardinality(Distractors(answer, pool)) >= NumChoices - 1

\* the sets of strings the four displayed choices can be
ChoiceSets(answer, pool) ==
    {S \cup {answer} : S \in {T \in SUBSET Distractors(answer, pool) :
                                 Cardinality(T) = NumChoices - 1}}

\* AddNew without the test of membership
AddNewAll(ch, draws) == ch \o draws

RECURSIVE AddNew(_, _)
\* for distractor in draws: if distractor not in choices: choices.append(distractor)
AddNew(ch, draws) ==
    IF draws = <<>> THEN ch
    ELSE AddNew(IF Head(draws) \in Range(ch) THEN ch ELSE Append(ch, Head(draws)),
                Tail(draws))

\* the lists random.choices(pool, k=require) can return
Draws(pl, require) == [1..require -> Range(pl)]

\* the lists random.shuffle(choices) can leave
Shuffles(ch) ==
    {[k \in 1..Len(ch) |-> ch[p[k]]] : p \in Permutations(1..Len(ch))}

RECURSIVE PoolSteps(_, _, _, _)
\* the number of passes of the while that builds the pool
PoolSteps(pl, length_index, idx, max_length) ==
    IF Len(pl) >= PoolTarget \/ length_index \notin DOMAIN idx THEN 0
    ELSE IF max_length = 0 THEN 1
    ELSE 1 + PoolSteps(pl \o idx[length_index],
                       ((length_index + max_length - 2) % max_length) + 1,
                       idx, max_length)

(***************************************************************************)
(* The session loop of main: which rounds an iteration runs.               *)
(***************************************************************************)
\* Branch with the test of the PassChoice bucket left out of the exit
BranchDoneEarly(v) ==
    IF Len(v[NOT_LEARNED]) = 0 THEN "done"
    ELSE IF Len(v[PASS_CHOICE]) >= Threshold THEN "prompt_choice"
    ELSE "choice_first"

\* Branch with > in place of >=
BranchStrict(v) ==
    IF Len(v[NOT_LEARNED]) = 0
    THEN IF Len(v[PASS_CHOICE]) = 0 THEN "done" ELSE "prompt_prompt"
    ELSE IF Len(v[PASS_CHOICE]) > Threshold THEN "prompt_choice"
    ELSE "choice_first"

\* the arm of the if of main that an iteration takes
Branch(v) ==
    IF Len(v[NOT_LEARNED]) = 0
    THEN IF Len(v[PASS_CHOICE]) = 0 THEN "done" ELSE "prompt_prompt"
    ELSE IF Len(v[PASS_CHOICE]) >= Threshold THEN "prompt_choice"
    ELSE "choice_first"

\* FirstMode with every arm starting on a choice round
FirstModeChoice(b) == "choice"

\* the first round of an arm
FirstMode(b) == IF b = "choice_first" THEN "choice" ELSE "prompt"

\* SecondMode with > in place of >=
SecondModeStrict(b, v) ==
    IF b = "prompt_prompt" THEN "prompt"
    ELSE IF b = "prompt_choice" THEN "choice"
    ELSE IF Len(v[PASS_CHOICE]) > Threshold THEN "prompt" ELSE "choice"

\* the second round of an arm, given the buckets after the first round
SecondMode(b, v) ==
    IF b = "prompt_prompt" THEN "prompt"
    ELSE IF b = "prompt_choice" THEN "choice"
    ELSE IF Len(v[PASS_CHOICE]) >= Threshold THEN "prompt" ELSE "choice"

\* MoreTrials with a sixth trial
MoreTrialsSix(n, src) == n < RoundSize + 1 /\ src # <<>>

\* for i in range(5): if not vocabs[...]: break -- the round runs another trial
MoreTrials(n, src) == n < RoundSize /\ src # <<>>

\* Source with the recall round drawing from the Learned bucket
SourceLearned(mode) == IF mode = "prompt" THEN LEARNED ELSE NOT_LEARNED

\* the bucket a round draws from
Source(mode) == IF mode = "prompt" THEN PASS_CHOICE ELSE NOT_LEARNED

\* PromotePrompt without the assignment of the status
PromotePromptStale(v, k) ==
    [v EXCEPT ![LEARNED] = Append(@, v[PASS_CHOICE][k]),
              ![PASS_CHOICE] = RemoveAt(@, k)]

\* PromotePrompt without the pop
PromotePromptKeep(v, k) ==
    LET vocab == [v[PASS_CHOICE][k] EXCEPT !.status = LEARNED]
    IN  [v EXCEPT ![LEARNED] = Append(@, vocab)]

\* run_prompt_session on a correct answer
PromotePrompt(v, k) ==
    LET vocab == [v[PASS_CHOICE][k] EXCEPT !.status = LEARNED]
    IN  [v EXCEPT ![LEARNED] = Append(@, vocab),
                  ![PASS_CHOICE] = RemoveAt(@, k)]

\* PromoteChoice without the assignment of the status
PromoteChoiceStale(v, k) ==
    [v EXCEPT ![PASS_CHOICE] = Append(@, v[NOT_LEARNED][k]),
              ![NOT_LEARNED] = RemoveAt(@, k)]

\* PromoteChoice without the pop
PromoteChoiceKeep(v, k) ==
    LET vocab == [v[NOT_LEARNED][k] EXCEPT !.status = PASS_CHOICE]
    IN  [v EXCEPT ![PASS_CHOICE] = Append(@, vocab)]

\* PromoteChoice with the entry moved to the Learned bucket
PromoteChoiceSkip(v, k) ==
    LET vocab == [v[NOT_LEARNED][k] EXCEPT !.status = LEARNED]
    IN  [v EXCEPT ![LEARNED] = Append(@, vocab),
                  ![NOT_LEARNED] = RemoveAt(@, k)]

\* run_choice_session on a correct answer
PromoteChoice(v, k) ==
    LET vocab == [v[NOT_LEARNED][k] EXCEPT !.status = PASS_CHOICE]
    IN  [v EXCEPT ![PASS_CHOICE] = Append(@, vocab),
                  ![NOT_LEARNED] = RemoveAt(@, k)]

\* AfterInterrupt with a save in the except clause
InterruptSaves(d, v) == SaveRows(v)

\* what the except clause of main leaves on disk
AfterInterrupt(d, v) == d

\* AfterSummary with save_vocabs called before summary
SummarySaves(d, v) == SaveRows(v)

\* what summary leaves on disk
AfterSummary(d, v) == d

(***************************************************************************)
(* The vocabulary files the program is started on.                         *)
(***************************************************************************)
\* four entries out of order, two lengths of meaning, every status
FileMixed ==
    <<Row(<<"1", "0">>, "w1", "a", <<"0">>),
      Row(<<"2">>, "w2", "bb", <<"1">>),
      Row(<<"1">>, "w3", "c", <<"0">>),
      Row(<<"3">>, "w4", "dd", <<"2">>)>>

\* three entries to learn, three meanings
FileFew ==
    <<Row(<<"1">>, "w1", "a", <<"0">>),
      Row(<<"2">>, "w2", "b", <<"0">>),
      Row(<<"3">>, "w3", "c", <<"0">>)>>

\* meanings of length 1 and 3, none of length 2
FileGap ==
    <<Row(<<"1">>, "w1", "a", <<"0">>),
      Row(<<"2">>, "w2", "ccc", <<"0">>),
      Row(<<"3">>, "w3", "b", <<"1">>),
      Row(<<"4">>, "w4", "d", <<"2">>),
      Row(<<"5">>, "w5", "e", <<"2">>)>>

\* every meaning empty
FileBlank ==
    <<Row(<<"1">>, "w1", "", <<"0">>),
      Row(<<"2">>, "w2", "", <<"1">>)>>

\* a status that is no Status, a status that is no integer
FileBadStatus ==
    <<Row(<<"1">>, "w1", "a", <<"1">>),
      Row(<<"2">>, "w2", "b", <<"3">>)>>

FileNonIntStatus ==
    <<Row(<<"1">>, "w1", "a", <<"x">>)>>

\* statuses that int() accepts and str() writes differently
FileNonCanon ==
    <<Row(<<"2">>, "w1", "a", <<"0", "1">>),
      Row(<<"1">>, "w2", "b", <<" ", "2">>)>>

\* an index that is no integer
FileBadIndex ==
    <<Row(<<"x">>, "w1", "a", <<"1">>)>>

\* entries that share an index
FileDup ==
    <<Row(<<"1">>, "w1", "a", <<"2">>),
      Row(<<"1">>, "w2", "b", <<"1">>),
      Row(<<"0">>, "w3", "c", <<"1">>)>>

FileEmpty == <<>>

\* NumPass copies of an entry that passed the choice round, three learned
\* entries and NumNew copies of the same entry not yet learned
FileBig ==
    [k \in 1..NumPass |-> Row(<<"5">>, "w", "a", <<"1">>)]
    \o <<Row(<<"2">>, "x", "b", <<"2">>),
         Row(<<"9">>, "y", "c", <<"2">>),
         Row(<<"7">>, "z", "d", <<"2">>)>>
    \o [k \in 1..NumNew |-> Row(<<"5">>, "w", "a", <<"0">>)]

Files ==
    {FileMixed, FileFew, FileGap, FileBlank, FileBadStatus, FileNonIntStatus,
     FileNonCanon, FileBadIndex, FileDup, FileEmpty, FileBig}

(***************************************************************************)
(* The state.                                                              *)
(*   disk     the rows of the vocabulary file                              *)
(*   vocabs   the buckets of read_vocab, by status                         *)
(*   index    the meanings by length                                       *)
(*   pc       where the program is: "load", "loop" (the head of the while  *)
(*            of main), "round" (the head of the for of a round),          *)
(*            "sampling" (the while of ask_choice that draws the choices), *)
(*            "ask" (waiting for the answer), "ack" (waiting for Enter     *)
(*            after the verdict), "summary" (waiting for Enter in          *)
(*            summary), "done", "interrupted", "crashed"                   *)
(*   branch   the arm of the if of main the iteration is in                *)
(*   rounds   the rounds the iteration has started, in order               *)
(*   i        the loop variable of the round                               *)
(*   cur      vocab_index, counted from 1                                  *)
(*   correct  the verdict of the trial                                     *)
(*   pool     the pool of ask_choice                                       *)
(*   choices  the choices of ask_choice                                    *)
(* History:                                                                *)
(*   orig       the rows of the file the program was started on            *)
(*   persisted  the rows the last completed save_vocabs wrote, or orig     *)
(*   saved      save_vocabs has completed at least once                    *)
(*   promoted   an entry has changed status since the load                 *)
(***************************************************************************)
VARIABLES disk, vocabs, index, pc, branch, rounds, i, cur, correct,
          pool, choices, orig, persisted, saved, promoted

vars == <<disk, vocabs, index, pc, branch, rounds, i, cur, correct,
          pool, choices, orig, persisted, saved, promoted>>

mode == rounds[Len(rounds)]

source == vocabs[Source(mode)]

vocab == source[cur]

Init ==
    /\ disk \in Files
    /\ orig = disk
    /\ persisted = disk
    /\ vocabs = [st \in Status |-> <<>>]
    /\ index = [n \in {} |-> <<>>]
    /\ pc = "load"
    /\ branch = "none"
    /\ rounds = <<>>
    /\ i = 0
    /\ cur = 0
    /\ correct = FALSE
    /\ pool = <<>>
    /\ choices = <<>>
    /\ saved = FALSE
    /\ promoted = FALSE

\* vocabs, index = read_vocab(args.filename)
Load ==
    /\ pc = "load"
    /\ LET r == ReadVocab(disk)
       IN  IF r.ok
           THEN /\ vocabs' = r.vocabs
                /\ index' = r.index
                /\ pc' = "loop"
           ELSE /\ pc' = "crashed"
                /\ UNCHANGED <<vocabs, index>>
    /\ UNCHANGED <<disk, branch, rounds, i, cur, correct,
                   pool, choices, orig, persisted, saved, promoted>>

\* print("All vocabs are learned!"); break
Finish ==
    /\ pc = "loop"
    /\ Branch(vocabs) = "done"
    /\ pc' = "done"
    /\ UNCHANGED <<disk, vocabs, index, branch, rounds, i, cur, correct,
                   pool, choices, orig, persisted, saved, promoted>>

\* an iteration of the while takes an arm and enters its first round
StartIteration ==
    /\ pc = "loop"
    /\ Branch(vocabs) # "done"
    /\ branch' = Branch(vocabs)
    /\ rounds' = <<FirstMode(Branch(vocabs))>>
    /\ i' = 0
    /\ pc' = "round"
    /\ UNCHANGED <<disk, vocabs, index, cur, correct,
                   pool, choices, orig, persisted, saved, promoted>>

\* a trial of a round: an entry is drawn and, in a choice round, its pool built
Draw ==
    /\ pc = "round"
    /\ MoreTrials(i, source)
    /\ \E k \in 1..Len(source) :
          /\ cur' = k
          /\ pc' = IF mode = "prompt" THEN "ask"
                   ELSE IF BuildPool(source[k].meaning, index).kind = "ok"
                        THEN "sampling" ELSE "crashed"
    /\ UNCHANGED <<disk, vocabs, index, branch, rounds, i, correct,
                   pool, choices, orig, persisted, saved, promoted>>

\* while len(choices) < 4: the choices are complete, or a pass adds nothing
Sample ==
    /\ pc = "sampling"
    /\ IF CanSample(vocab.meaning, BuildPool(vocab.meaning, index).pool)
       THEN pc' = "ask"
       ELSE pc' = "sampling"
    /\ UNCHANGED <<disk, vocabs, index, branch, rounds, i, cur, correct,
                   pool, choices, orig, persisted, saved, promoted>>

\* the results the user can enter
Results ==
    IF mode = "prompt" THEN {vocab.meaning, "?"}
    ELSE UNION ChoiceSets(vocab.meaning, BuildPool(vocab.meaning, index).pool)

\* input(...) or Bullet(...).launch() returns: correct = bool(result == answer)
Answer ==
    /\ pc = "ask"
    /\ \E result \in Results : correct' = (result = vocab.meaning)
    /\ pc' = "ack"
    /\ UNCHANGED <<disk, vocabs, index, branch, rounds, i, cur,
                   pool, choices, orig, persisted, saved, promoted>>

\* input("Press Enter to continue...") returns: the verdict is applied
Ack ==
    /\ pc = "ack"
    /\ vocabs' = IF ~correct THEN vocabs
                 ELSE IF mode = "prompt" THEN PromotePrompt(vocabs, cur)
                 ELSE PromoteChoice(vocabs, cur)
    /\ promoted' = (promoted \/ correct)
    /\ i' = i + 1
    /\ pc' = "round"
    /\ UNCHANGED <<disk, index, branch, rounds, cur, correct,
                   pool, choices, orig, persisted, saved>>

\* a round is over: the second round is entered, or summary prints and waits
EndRound ==
    /\ pc = "round"
    /\ ~MoreTrials(i, source)
    /\ IF Len(rounds) = 1
       THEN /\ rounds' = Append(rounds, SecondMode(branch, vocabs))
            /\ i' = 0
            /\ pc' = "round"
            /\ disk' = disk
       ELSE /\ pc' = "summary"
            /\ disk' = AfterSummary(disk, vocabs)
            /\ UNCHANGED <<rounds, i>>
    /\ UNCHANGED <<vocabs, index, branch, cur, correct,
                   pool, choices, orig, persisted, saved, promoted>>

\* the Enter of summary: save_vocabs(args.filename, vocabs)
Save ==
    /\ pc = "summary"
    /\ IF SaveRaises(vocabs)
       THEN /\ pc' = "crashed"
            /\ UNCHANGED <<disk, persisted, saved>>
       ELSE /\ disk' = SaveRows(vocabs)
            /\ persisted' = SaveRows(vocabs)
            /\ saved' = TRUE
            /\ pc' = "loop"
    /\ UNCHANGED <<vocabs, index, branch, rounds, i, cur, correct,
                   pool, choices, orig, promoted>>

\* KeyboardInterrupt where the program waits for input
Interrupt ==
    /\ pc \in {"ask", "ack", "summary"}
    /\ pc' = "interrupted"
    /\ disk' = AfterInterrupt(disk, vocabs)
    /\ UNCHANGED <<vocabs, index, branch, rounds, i, cur, correct,
                   pool, choices, orig, persisted, saved, promoted>>

Next ==
    \/ Load
    \/ Finish
    \/ StartIteration
    \/ Draw
    \/ Sample
    \/ Answer
    \/ Ack
    \/ EndRound
    \/ Save
    \/ Interrupt

Spec == Init /\ [][Next]_vars

(***************************************************************************)
(* ask_choice on its own: an entry of a loaded file is drawn in a choice   *)
(* round and ask_choice runs step by step, with its locals pool and        *)
(* choices, up to the selection of the user.  (Spec does not keep the two  *)
(* locals: Sample and Results give the outcome of the sampling.)           *)
(* pc is "pool" on entry to ask_choice.                                    *)
(***************************************************************************)
\* the files whose load succeeds and leaves entries to draw in a choice round
ChoiceFiles ==
    {f \in Files : ReadVocab(f).ok /\ ReadVocab(f).vocabs[NOT_LEARNED] # <<>>}

\* the first trial of the first choice round, the buckets as loaded
InitChoice ==
    /\ disk \in ChoiceFiles
    /\ orig = disk
    /\ persisted = disk
    /\ vocabs = ReadVocab(disk).vocabs
    /\ index = ReadVocab(disk).index
    /\ pc = "pool"
    /\ branch = Branch(vocabs)
    /\ rounds = IF FirstMode(branch) = "choice"
                THEN <<"choice">> ELSE <<"prompt", SecondMode(branch, vocabs)>>
    /\ i = 0
    /\ cur \in 1..Len(vocabs[NOT_LEARNED])
    /\ correct = FALSE
    /\ pool = <<>>
    /\ choices = <<>>
    /\ saved = FALSE
    /\ promoted = FALSE

\* choices = [answer]; the while that builds the pool
ChoicePool ==
    /\ pc = "pool"
    /\ pool' = BuildPool(vocab.meaning, index).pool
    /\ choices' = <<vocab.meaning>>
    /\ pc' = IF BuildPool(vocab.meaning, index).kind = "ok"
             THEN "sampling" ELSE "crashed"
    /\ UNCHANGED <<disk, vocabs, index, branch, rounds, i, cur, correct,
                   orig, persisted, saved, promoted>>

\* a pass of while len(choices) < 4
SamplePass ==
    /\ pc = "sampling"
    /\ Len(choices) < NumChoices
    /\ \E draws \in Draws(pool, NumChoices - Len(choices)) :
          choices' = AddNew(choices, draws)
    /\ UNCHANGED <<disk, vocabs, index, pc, branch, rounds, i, cur, correct,
                   pool, orig, persisted, saved, promoted>>

\* random.shuffle(choices); the choices are displayed
Shuffle ==
    /\ pc = "sampling"
    /\ Len(choices) >= NumChoices
    /\ choices' \in Shuffles(choices)
    /\ pc' = "ask"
    /\ UNCHANGED <<disk, vocabs, index, branch, rounds, i, cur, correct,
                   pool, orig, persisted, saved, promoted>>

\* Bullet(...).launch() returns one of the choices
Select ==
    /\ pc = "ask"
    /\ \E result \in Range(choices) : correct' = (result = vocab.meaning)
    /\ pc' = "ack"
    /\ UNCHANGED <<disk, vocabs, index, branch, rounds, i, cur,
                   pool, choices, orig, persisted, saved, promoted>>

NextChoice ==
    \/ ChoicePool
    \/ SamplePass
    \/ Shuffle
    \/ Select

SpecChoice == InitChoice /\ [][NextChoice]_vars

(***************************************************************************)
(* Vocabulary of the properties.                                           *)
(***************************************************************************)
Count(s, x) == Cardinality({k \in 1..Len(s) : s[k] = x})

\* the two sequences hold the same elements the same number of times
SameBag(s, t) == \A x \in Range(s) \cup Range(t) : Count(s, x) = Count(t, x)

Key(r) == [index |-> r.index, word |-> r.word, meaning |-> r.meaning]

Keys(s) == [k \in 1..Len(s) |-> Key(s[k])]

AllEntries(v) == v[NOT_LEARNED] \o v[PASS_CHOICE] \o v[LEARNED]

\* the rows of a file as entries, the status read as read_vocab reads it
DiskEntries(d) == [k \in 1..Len(d) |-> [d[k] EXCEPT !.status = ParseStatus(@).val]]

AscendingIndex(d) ==
    \A k \in 1..(Len(d) - 1) : ParseInt(d[k].index).val <= ParseInt(d[k + 1].index).val

\* every status is one of the codes 0, 1, 2 and every index an integer
WellFormed(d) ==
    \A k \in 1..Len(d) :
        /\ d[k].status \in {<<"0">>, <<"1">>, <<"2">>}
        /\ ParseInt(d[k].index).ok

\* the program is past a successful load and has not crashed
Running == pc \in {"loop", "round", "sampling", "ask", "ack", "summary",
                   "done", "interrupted"}

\* w is v with one entry of bucket st moved to the end of bucket st + 1
OneStep(v, w, st) ==
    \E k \in 1..Len(v[st]) :
        /\ w[st] = RemoveAt(v[st], k)
        /\ w[st + 1] = Append(v[st + 1], [v[st][k] EXCEPT !.status = st + 1])
        /\ \A o \in Status \ {st, st + 1} : w[o] = v[o]

(***************************************************************************)
(* C1.  After the load, a step of the program either leaves every entry    *)
(* where it is or moves exactly one entry one status forward               *)
(* (NotLearned to PassChoice, or PassChoice to Learned); a wrong answer    *)
(* moves nothing.                                                          *)
(***************************************************************************)
C1_StatusSteps ==
    [][pc # "load" =>
          /\ \/ vocabs' = vocabs
             \/ OneStep(vocabs, vocabs', NOT_LEARNED)
             \/ OneStep(vocabs, vocabs', PASS_CHOICE)
          /\ (pc = "ack" /\ ~correct) => vocabs' = vocabs]_vars

\* an entry loaded as NotLearned has reached the Learned bucket
C1_Witness ==
    \E k \in 1..Len(vocabs[LEARNED]) : \E j \in 1..Len(orig) :
        /\ Key(orig[j]) = Key(vocabs[LEARNED][k])
        /\ orig[j].status = <<"0">>
        /\ Count(Keys(orig), Key(orig[j])) = 1

(***************************************************************************)
(* C2.  Wherever the program waits for input or saves, the three buckets   *)
(* together hold exactly the loaded rows, each once: their sizes sum to    *)
(* the number of rows of the file.                                         *)
(***************************************************************************)
C2_BucketsPartition ==
    Running =>
        /\ Len(vocabs[NOT_LEARNED]) + Len(vocabs[PASS_CHOICE]) + Len(vocabs[LEARNED])
              = Len(orig)
        /\ SameBag(Keys(AllEntries(vocabs)), Keys(orig))

\* waiting in summary with every bucket in use and entries promoted
C2_Witness ==
    /\ pc = "summary"
    /\ promoted
    /\ \A st \in Status : vocabs[st] # <<>>

(***************************************************************************)
(* C3.  On a well-formed file, a save with no promotion since the load     *)
(* writes the rows of the original file, every field equal, in ascending   *)
(* order of index.                                                         *)
(***************************************************************************)
C3_RoundTrip ==
    (saved /\ ~promoted /\ WellFormed(orig)) =>
        /\ SameBag(disk, orig)
        /\ AscendingIndex(disk)

\* a save without promotion has reordered a well-formed file
C3_Witness ==
    /\ saved
    /\ ~promoted
    /\ WellFormed(orig)
    /\ disk # orig

(***************************************************************************)
(* C4.  Every save writes one row per loaded entry, index, word and        *)
(* meaning as loaded, in ascending order of index; only the status         *)
(* column differs from the original file.                                  *)
(***************************************************************************)
C4_SaveFrame ==
    saved =>
        /\ Len(disk) = Len(orig)
        /\ SameBag(Keys(disk), Keys(orig))
        /\ AscendingIndex(disk)
        /\ \A k \in 1..Len(disk) : disk[k].status \in {<<"0">>, <<"1">>, <<"2">>}

\* a save after promotions: the file differs from the original in a status
C4_Witness ==
    /\ saved
    /\ promoted
    /\ ~SameBag(DiskEntries(disk), DiskEntries(orig))
    /\ \E k \in 1..Len(disk) : disk[k].status = <<"2">>

(***************************************************************************)
(* C5.  The loop ends normally only with the NotLearned and the            *)
(* PassChoice bucket both empty; while one of them holds an entry at the   *)
(* head of the loop, the program enters another iteration.                 *)
(***************************************************************************)
C5_Termination ==
    /\ [](pc = "done" =>
             vocabs[NOT_LEARNED] = <<>> /\ vocabs[PASS_CHOICE] = <<>>)
    /\ [][(pc = "loop" /\ (vocabs[NOT_LEARNED] # <<>> \/ vocabs[PASS_CHOICE] # <<>>))
              => (pc' = "round" /\ Len(rounds') = 1)]_vars

\* the loop has ended normally after promotions and a save
C5_Witness ==
    /\ pc = "done"
    /\ saved
    /\ promoted

(***************************************************************************)
(* C6 as stated.  An iteration that starts with 10 or more entries in      *)
(* PassChoice runs a recall round and then a choice round.                 *)
(***************************************************************************)
C6_Original ==
    /\ [][(pc = "loop" /\ Len(vocabs[PASS_CHOICE]) >= Threshold)
              => (branch' = "prompt_choice" /\ rounds' = <<"prompt">>)]_vars
    /\ [](branch = "prompt_choice" =>
             rounds \in {<<"prompt">>, <<"prompt", "choice">>})

(***************************************************************************)
(* C6 as amended.  An iteration that starts with NotLearned non-empty and  *)
(* 10 or more entries in PassChoice runs a recall round and then a choice  *)
(* round, never two choice rounds.                                         *)
(***************************************************************************)
C6_RecallThenChoice ==
    /\ [][(pc = "loop" /\ vocabs[NOT_LEARNED] # <<>>
              /\ Len(vocabs[PASS_CHOICE]) >= Threshold)
              => (branch' = "prompt_choice" /\ rounds' = <<"prompt">>)]_vars
    /\ [](branch = "prompt_choice" =>
             rounds \in {<<"prompt">>, <<"prompt", "choice">>})
    /\ []((pc = "summary" /\ branch = "prompt_choice") =>
             rounds = <<"prompt", "choice">>)

\* an iteration that started with exactly 10 entries in PassChoice is in its
\* choice round, after a recall round that promoted entries
C6_Witness ==
    /\ branch = "prompt_choice"
    /\ rounds = <<"prompt", "choice">>
    /\ pc = "ask"
    /\ Len(vocabs[PASS_CHOICE]) < Threshold

(***************************************************************************)
(* C7.  An iteration that starts with NotLearned empty and PassChoice      *)
(* non-empty runs two recall rounds and no choice round; a recall round    *)
(* that finds PassChoice empty runs no trial.                              *)
(***************************************************************************)
C7_RecallTwice ==
    /\ [][(pc = "loop" /\ vocabs[NOT_LEARNED] = <<>> /\ vocabs[PASS_CHOICE] # <<>>)
              => (branch' = "prompt_prompt" /\ rounds' = <<"prompt">>)]_vars
    /\ [](branch = "prompt_prompt" =>
             rounds \in {<<"prompt">>, <<"prompt", "prompt">>})
    /\ []((pc = "summary" /\ branch = "prompt_prompt") =>
             rounds = <<"prompt", "prompt">>)
    /\ [][(pc = "round" /\ branch = "prompt_prompt" /\ vocabs[PASS_CHOICE] = <<>>)
              => (pc' \in {"round", "summary"} /\ cur' = cur /\ i' \in {0, i})]_vars

\* the first recall round emptied PassChoice and the second ran no trial
C7_Witness ==
    /\ pc = "summary"
    /\ branch = "prompt_prompt"
    /\ rounds = <<"prompt", "prompt">>
    /\ vocabs[PASS_CHOICE] = <<>>
    /\ i = 0

(***************************************************************************)
(* C8.  An iteration that starts with NotLearned non-empty and fewer than  *)
(* 10 entries in PassChoice runs a choice round first; its second round    *)
(* is a recall round exactly when PassChoice holds 10 or more entries      *)
(* after the first round, and a choice round otherwise.                    *)
(***************************************************************************)
C8_ChoiceFirst ==
    /\ [][(pc = "loop" /\ vocabs[NOT_LEARNED] # <<>>
              /\ Len(vocabs[PASS_CHOICE]) < Threshold)
              => (branch' = "choice_first" /\ rounds' = <<"choice">>)]_vars
    /\ [][(branch = "choice_first" /\ Len(rounds) = 1 /\ Len(rounds') = 2)
              => /\ branch' = branch
                 /\ rounds'[1] = "choice"
                 /\ rounds'[2] = IF Len(vocabs[PASS_CHOICE]) >= Threshold
                                 THEN "prompt" ELSE "choice"]_vars
    /\ []((pc = "summary" /\ branch = "choice_first") => Len(rounds) = 2)

\* the first choice round brought PassChoice to exactly 10: a recall round follows
C8_Witness ==
    /\ branch = "choice_first"
    /\ rounds = <<"choice", "prompt">>
    /\ pc = "round"
    /\ i = 0
    /\ Len(vocabs[PASS_CHOICE]) = Threshold

(***************************************************************************)
(* C9 as stated.  While the program waits in summary, the state of the     *)
(* iteration is already in the file.                                       *)
(***************************************************************************)
C9_Original ==
    pc = "summary" => SameBag(DiskEntries(disk), AllEntries(vocabs))

(***************************************************************************)
(* C9 as amended.  After an iteration the summary is displayed first, the  *)
(* file untouched; the state is saved when the summary is acknowledged,    *)
(* before the next iteration starts.                                       *)
(***************************************************************************)
C9_SummaryThenSave ==
    /\ [][pc' = "summary" => disk' = disk]_vars
    /\ [][(pc = "summary" /\ pc' = "loop")
              => SameBag(DiskEntries(disk'), AllEntries(vocabs))]_vars
    /\ []((pc = "loop" /\ saved) => SameBag(DiskEntries(disk), AllEntries(vocabs)))

\* waiting in summary with promotions of the iteration not yet in the file
C9_Witness ==
    /\ pc = "summary"
    /\ saved
    /\ ~SameBag(DiskEntries(disk), AllEntries(vocabs))

(***************************************************************************)
(* C10.  An interrupt while the program waits for input ends it without    *)
(* a write: the file holds what the last completed save wrote, or the      *)
(* original rows if none completed.                                        *)
(***************************************************************************)
C10_InterruptKeepsFile ==
    /\ [][pc' = "interrupted" => disk' = disk]_vars
    /\ [](pc = "interrupted" => disk = persisted)
    /\ [](pc = "interrupted" =>
             (IF saved THEN Len(disk) = Len(orig) ELSE disk = orig))

\* interrupted after a save, with later promotions that were not written
C10_Witness ==
    /\ pc = "interrupted"
    /\ saved
    /\ disk # orig
    /\ ~SameBag(DiskEntries(disk), AllEntries(vocabs))

(***************************************************************************)
(* Vocabulary of the later properties.                                     *)
(***************************************************************************)
\* a trial is under way: an entry is drawn and its verdict not yet applied
InTrial == pc \in {"sampling", "ask", "ack"}

Loaded == ReadVocab(orig).vocabs

AllMeanings == UNION {Range(index[n]) : n \in DOMAIN index}

\* the entries in the buckets, each with the status of its bucket
BucketTagged(v) ==
    [k \in 1..Len(v[NOT_LEARNED]) |-> [v[NOT_LEARNED][k] EXCEPT !.status = NOT_LEARNED]]
    \o [k \in 1..Len(v[PASS_CHOICE]) |-> [v[PASS_CHOICE][k] EXCEPT !.status = PASS_CHOICE]]
    \o [k \in 1..Len(v[LEARNED]) |-> [v[LEARNED][k] EXCEPT !.status = LEARNED]]

\* the number of rows of the file with key K and a status of at least st
AtLeast(d, K, st) ==
    Cardinality({k \in 1..Len(d) : Key(d[k]) = K /\ ParseStatus(d[k].status).val >= st})

\* the program was started on a file of 3 rows, all of status 0
ThreeNew == Len(orig) = 3 /\ \A k \in 1..Len(orig) : orig[k].status = <<"0">>

(***************************************************************************)
(* C11.  The entry of a trial is drawn from the NotLearned bucket in a     *)
(* choice round and from the PassChoice bucket in a recall round; an       *)
(* entry whose status is Learned, loaded or promoted, is never the entry   *)
(* of a trial.                                                             *)
(***************************************************************************)
C11_NeverLearned ==
    InTrial =>
        /\ cur \in 1..Len(source)
        /\ vocab.status # LEARNED
        /\ vocab.status = (IF mode = "choice" THEN NOT_LEARNED ELSE PASS_CHOICE)
        /\ \E k \in 1..Len(vocabs[vocab.status]) : vocabs[vocab.status][k] = vocab

\* a trial with entries in the Learned bucket, some loaded there, some promoted
C11_Witness ==
    /\ pc = "ask"
    /\ Loaded[LEARNED] # <<>>
    /\ Len(vocabs[LEARNED]) > Len(Loaded[LEARNED])

(***************************************************************************)
(* C12.  A round runs at most 5 trials; it starts a trial only with        *)
(* fewer than 5 done and an entry in its source bucket, and it ends with   *)
(* fewer than 5 done only on an empty source bucket.                       *)
(***************************************************************************)
C12_RoundLength ==
    /\ [](i <= RoundSize)
    /\ [][(pc = "round" /\ pc' \in {"sampling", "ask", "crashed"})
              => (i < RoundSize /\ source # <<>>)]_vars
    /\ [][(pc = "round" /\ (pc' = "summary" \/ rounds' # rounds))
              => (i = RoundSize \/ source = <<>>)]_vars
    /\ [][(pc = "round" /\ i < RoundSize /\ source # <<>>)
              => pc' \in {"sampling", "ask", "crashed"}]_vars

\* the second round has ended after one to four trials, its bucket empty
C12_Witness ==
    /\ pc = "summary"
    /\ i \in 1..(RoundSize - 1)
    /\ source = <<>>

(***************************************************************************)
(* C13 as stated.  When the pool cannot yield 4 unique strings with the    *)
(* true meaning, choice sampling ends in an error: the program is never    *)
(* in the sampling loop with such a pool.                                  *)
(***************************************************************************)
C13_ErrorNotLoop ==
    pc = "sampling" => CanSample(vocab.meaning, pool)

(***************************************************************************)
(* C14 as stated.  For an entry of a vocabulary with at least 4 other      *)
(* distinct meanings, the pool is built without error in at most           *)
(* max_length passes, holds at least 5 entries and holds an entry of the   *)
(* length of the entry's meaning.                                          *)
(***************************************************************************)
C14_PoolBuilt ==
    (pc # "pool" /\ Cardinality(AllMeanings \ {vocab.meaning}) >= 4) =>
        /\ pc # "crashed"
        /\ Len(pool) >= PoolTarget
        /\ \E k \in 1..Len(pool) : Len(pool[k]) = Len(vocab.meaning)
        /\ PoolSteps(<<>>, Len(vocab.meaning), index, SetMax(DOMAIN index))
              <= SetMax(DOMAIN index)

(***************************************************************************)
(* C15.  When choice sampling has returned, the displayed list holds       *)
(* exactly 4 entries, no string twice, and the true meaning once.          *)
(***************************************************************************)
C15_FourDistinct ==
    pc \in {"ask", "ack"} =>
        /\ Len(choices) = NumChoices
        /\ \A j, k \in 1..Len(choices) : choices[j] = choices[k] => j = k
        /\ Count(choices, vocab.meaning) = 1
        /\ Range(choices) \subseteq Range(pool) \cup {vocab.meaning}

\* the choices are displayed, drawn from a pool that holds the true meaning
\* and another string more than once
C15_Witness ==
    /\ pc = "ask"
    /\ Count(pool, vocab.meaning) > 1
    /\ \E x \in Range(pool) \ {vocab.meaning} : Count(pool, x) > 1
    /\ choices[1] # vocab.meaning

(***************************************************************************)
(* C16 as stated, in its finite form.  On a file of 3 rows, all of status  *)
(* 0, the first round is a choice round and each of its trials is reached: *)
(* the choices of the drawn entry can be sampled, so that the trial can be *)
(* answered and the run can go on to the 3 entries Learned.                *)
(***************************************************************************)
C16_ThreeRows ==
    ThreeNew =>
        /\ rounds # <<>> => rounds[1] = "choice"
        /\ pc = "sampling" =>
               \E ch \in ChoiceSets(vocab.meaning,
                                    BuildPool(vocab.meaning, index).pool) :
                   vocab.meaning \in ch

(***************************************************************************)
(* C17.  When a row of the file has a status that is not one of the codes  *)
(* 0, 1, 2, the load fails: no round is entered, nothing is saved and the  *)
(* file is left as it was.                                                 *)
(***************************************************************************)
C17_LoadFails ==
    (\E k \in 1..Len(orig) : ParseInt(orig[k].status).val \notin Status
                                \/ ~ParseInt(orig[k].status).ok) =>
        /\ pc \in {"load", "crashed"}
        /\ rounds = <<>>
        /\ ~saved
        /\ disk = orig
        /\ \A st \in Status : vocabs[st] = <<>>

\* the load has failed on a status that is an integer but no code
C17_Witness ==
    /\ pc = "crashed"
    /\ \E k \in 1..Len(orig) :
          ParseInt(orig[k].status).ok /\ ParseInt(orig[k].status).val \notin Status
    /\ \E k \in 1..Len(orig) : ParseStatus(orig[k].status).ok

(***************************************************************************)
(* C18.  Within a round the source bucket never gains an entry: a correct  *)
(* answer removes the entry of the trial from it, so that the entry is     *)
(* not drawn again in the round; a wrong answer leaves every bucket as it  *)
(* is and the round goes on, the entry still to be drawn.                  *)
(***************************************************************************)
C18_NoRedraw ==
    /\ [][(pc = "ack" /\ correct /\ pc' = "round")
              => /\ vocabs'[Source(mode)] = RemoveAt(source, cur)
                 /\ Count(vocabs'[Source(mode)], vocab)
                       = Count(source, vocab) - 1]_vars
    /\ [][(pc = "ack" /\ ~correct /\ pc' = "round")
              => /\ vocabs' = vocabs
                 /\ rounds' = rounds
                 /\ i' = i + 1]_vars
    /\ [][(rounds # <<>> /\ rounds' = rounds)
              => \/ vocabs'[Source(mode)] = source
                 \/ \E k \in 1..Len(source) :
                       vocabs'[Source(mode)] = RemoveAt(source, k)]_vars
    /\ [](InTrial => cur \in 1..Len(source))

\* in a recall round the only entry of the bucket, answered wrongly in the
\* first trial, is drawn again in the second
C18_Witness ==
    /\ pc = "ask"
    /\ mode = "prompt"
    /\ Len(rounds) = 1
    /\ i = 1
    /\ ~promoted
    /\ Len(source) = 1

(***************************************************************************)
(* C19.  The status field of every entry is the status of the bucket that  *)
(* holds it, so that the status a save writes for an entry is the status   *)
(* of its bucket.                                                          *)
(***************************************************************************)
C19_FieldIsBucket ==
    /\ [](Running =>
             \A st \in Status : \A k \in 1..Len(vocabs[st]) : vocabs[st][k].status = st)
    /\ [][(pc = "summary" /\ pc' = "loop")
              => SameBag(DiskEntries(disk'), BucketTagged(vocabs))]_vars

\* a save has written entries promoted in a choice round and in a recall round
C19_Witness ==
    /\ pc = "loop"
    /\ saved
    /\ Len(vocabs[LEARNED]) > Len(Loaded[LEARNED])
    /\ Len(vocabs[NOT_LEARNED]) < Len(Loaded[NOT_LEARNED])
    /\ SameBag(DiskEntries(disk), BucketTagged(vocabs))

(***************************************************************************)
(* C20.  When the loop ends normally every row of the file has status 2;   *)
(* and from save to save no entry's status in the file decreases.          *)
(***************************************************************************)
C20_FinalOnDisk ==
    /\ [](pc = "done" =>
             /\ Len(disk) = Len(orig)
             /\ \A k \in 1..Len(disk) : ParseStatus(disk[k].status).val = LEARNED)
    /\ [][\A K \in Range(Keys(orig)) : \A st \in Status :
              AtLeast(disk', K, st) >= AtLeast(disk, K, st)]_vars

\* the loop has ended on a file that a save brought to status 2 throughout
C20_Witness ==
    /\ pc = "done"
    /\ saved
    /\ \E k \in 1..Len(orig) : ParseStatus(orig[k].status).val # LEARNED
    /\ \A k \in 1..Len(disk) : disk[k].status = <<"2">>

====
